---- MODULE Spec2Model ----
(***************************************************************************)
(* Model of the GTM notification system:                                   *)
(*   backend/notifications.py  NotificationSystem (gate, routing, retry    *)
(*                             loop, audit logging)                        *)
(*   backend/rate_limiter.py   RateLimiter (sliding window per key)        *)
(* Collaborators (user directory, preference store, blob store, transport, *)
(* audit store) are modelled by the outcomes their calls can have.         *)
(***************************************************************************)
EXTENDS Integers, Sequences, FiniteSets, TLC

----------------------------------------------------------------------------
(* Bounds of the exploration *)

MaxRetriesCfg == 3
MaxRequests == 2
MaxBurst == 3
MaxCalls == 2
WindowSeconds == 2
MaxTime == 3
MaxAdmits == 3
MaxOverlap == 2
MaxLiveRequests == 1
MaxLockTime == 1
MaxLockCalls == 1
MaxLockAdmits == 2

(* Program constants *)

BackoffBase == 5
AttachmentSizeThresholdMb == 2
DefaultMaxRetries == 3

Users == {"u1", "u2"}

None == "None"

Max(a, b) == IF a >= b THEN a ELSE b

----------------------------------------------------------------------------
(* NotificationType and the kinds each dispatch entry point uses *)

NotificationType ==
    {"job_complete", "job_failed", "quota_warning", "quota_exceeded", "welcome", "verify"}

Ops == {"send_job_complete", "send_job_failed", "send_quota_warning"}

KindOf(op) ==
    CASE op = "send_job_complete" -> "job_complete"
      [] op = "send_job_failed" -> "job_failed"
      [] op = "send_quota_warning" -> "quota_warning"

attachment_threshold_bytes == AttachmentSizeThresholdMb * 1000000

(* csv_data lengths offered to send_job_complete; NoCsv is csv_data=None *)
NoCsv == 0 - 1
CsvSizes ==
    {NoCsv, 0, 1, attachment_threshold_bytes - 1, attachment_threshold_bytes,
     attachment_threshold_bytes + 1}

----------------------------------------------------------------------------
(* User directory and preference store contents *)

UserStates == {"NotFound", "NoEmail", "Unverified", "Verified"}

Emails == [u \in Users |-> IF u = "u1" THEN "u1@example.com" ELSE "u2@example.com"]

(* a preference row: the flags it carries, keyed by notification kind     *)
(* (column email_<kind>); a kind outside the domain is a missing key.      *)
(* [exists |-> FALSE] is "no row for this user".                           *)
NoRow == [exists |-> FALSE, row |-> [k \in {} |-> TRUE]]
PrefRows(kinds) ==
    {[exists |-> TRUE, row |-> f] : f \in UNION {[S -> BOOLEAN] : S \in SUBSET kinds}}
PrefStates(kinds) == {NoRow} \cup PrefRows(kinds)

DispatchKinds == {KindOf(op) : op \in Ops}

(* What a lookup hands back: the stored value, or an exception.  The user *)
(* directory and the preference store are external: a lookup may find any *)
(* stored value                                                            *)
Lookup(ok, value) == [ok |-> ok, value |-> value]
DirResponses ==
    {Lookup(TRUE, s) : s \in UserStates} \cup {Lookup(FALSE, "NotFound")}
PrefResponses(kinds) ==
    {Lookup(TRUE, p) : p \in PrefStates(kinds)} \cup {Lookup(FALSE, NoRow)}

----------------------------------------------------------------------------
VARIABLES
    max_retries,      \* NotificationSystem.max_retries
    waiting,          \* dispatch coroutines suspended in asyncio.sleep, in
                      \* the order they were suspended
    pc,               \* position of the dispatch coroutine
    nreq,             \* number of dispatch calls made so far
    req,              \* arguments of the dispatch call in progress
    should_send,      \* gate result
    user_email,       \* gate result
    gate_cause,       \* which branch of the gate decided
    lookup_raised,    \* the lookup of the gate that raised, or None
    gate_in,          \* arguments of a direct gate call and what the user
                      \* directory and the preference store hold
    attachments,      \* TRUE iff an attachment list was built
    download_section, \* "", "attached", "link" or "error"
    attempt,          \* loop variable of the retry loop
    last_error,       \* last_error of the retry loop
    email_id,         \* result['id'] of the Transport call just made
    result,           \* what the dispatch call gave its caller
    transport_log,    \* Transport invocations of the call in progress
    sleeps,           \* asyncio.sleep durations of the call in progress
    blob_calls,       \* Blob Store calls of the call in progress
    blob_out,         \* how _upload_to_storage ended in the call in progress
    audit_errors,     \* failed audit inserts of the call in progress
    audit,            \* notification_logs table
    pass_log,         \* users and times of the calls that passed the gate
    max_calls,        \* RateLimiter.max_calls
    calls,            \* RateLimiter._calls: key -> list of call times
    lim,              \* outcome of the last limiter operation
    admit_log,        \* the limiter's admissions still inside the window, per key
    full_at,          \* per key: oldest live admission when the key last filled up
    lock,             \* RateLimiter._lock: the caller holding it, or None
    cpc,              \* per concurrent caller: position in check_rate_limit
    ccall,            \* per concurrent caller: the call it is making
    cres,             \* per concurrent caller: outcome of its last call
    now               \* the clock (datetime.now())

envVars == <<max_retries, waiting>>
gateVars == <<should_send, user_email, gate_cause, lookup_raised, gate_in>>
routeVars == <<attachments, download_section>>
loopVars == <<attempt, last_error, email_id>>
traceVars == <<transport_log, sleeps, blob_calls, blob_out, audit_errors>>
lockVars == <<lock, cpc, ccall, cres>>
limVars == <<max_calls, calls, lim, admit_log, full_at, lockVars>>
dispatchVars == <<envVars, pc, nreq, req, gateVars, routeVars, loopVars,
                  result, traceVars, audit, pass_log>>
vars == <<envVars, pc, nreq, req, gateVars, routeVars, loopVars, result,
          traceVars, audit, pass_log, limVars, now>>

----------------------------------------------------------------------------
(* Values of the retry loop and results handed to the caller *)

NoError == [src |-> "None", n |-> 0]
TransportError(n) == [src |-> "transport", n |-> n]
AuditError(n) == [src |-> "audit", n |-> n]
UnknownError == [src |-> "Unknown error", n |-> 0]
CancelledError(n) == [src |-> "cancelled", n |-> n]
(* KeyError of results['total_rows'], ZeroDivisionError of current_usage / limit *)
RequestError == [src |-> "request", n |-> 0]

NoId == 0
TransportId(rid, n) == rid * 10 + n

NoResult ==
    [kind |-> "pending", success |-> FALSE, email_id |-> NoId,
     error |-> NoError, reason |-> None]
ReturnSuccess(id) ==
    [kind |-> "return", success |-> TRUE, email_id |-> id,
     error |-> NoError, reason |-> None]
ReturnError(e) ==
    [kind |-> "return", success |-> FALSE, email_id |-> NoId,
     error |-> e, reason |-> None]
ReturnReason(r) ==
    [kind |-> "return", success |-> FALSE, email_id |-> NoId,
     error |-> NoError, reason |-> r]
Raised(e) ==
    [kind |-> "raise", success |-> FALSE, email_id |-> NoId,
     error |-> e, reason |-> None]

NoReq == [rid |-> 0, op |-> None, user_id |-> None, csv |-> NoCsv, valid |-> TRUE]

----------------------------------------------------------------------------
(* NotificationSystem._check_user_preferences                               *)
(*   dirResp  : what get_user_by_id gives (a UserStates value or a raise)  *)
(*   prefResp : what the preference query gives (a PrefStates value or a   *)
(*              raise)                                                      *)
(* cause names the branch that decided; the code does not return it.       *)

Decision(send, email, cause) ==
    [should_send |-> send, user_email |-> email, cause |-> cause]

(* "return False, None" and "return True, user.email" *)
Reject(cause) == Decision(FALSE, None, cause)

AllowWithoutContact(email) == Decision(TRUE, None, None)

Allow(email) == Decision(TRUE, email, None)

(* "prefs_response.data.get(pref_key, True)" *)
PreferenceEnabledDefaultOff(row, kind) == IF kind \in DOMAIN row THEN row[kind] ELSE FALSE

PreferenceEnabled(row, kind) == IF kind \in DOMAIN row THEN row[kind] ELSE TRUE

(* "[NotificationType.WELCOME, NotificationType.VERIFY]" *)
NoOnboardingKinds == {}

OnboardingKinds == {"welcome", "verify"}

(* "if not prefs_response.data: ... return True, user.email" *)
NoPreferencesOptOut(email) == Reject("PreferenceOptOut")

NoPreferences(email) == Allow(email)

(* "except Exception as e: ... return False, None" *)
GateExceptOptimistic(email) == Allow(email)

GateExcept(email) == Reject("LookupError")

CheckUserPreferences(u, kind, dirResp, prefResp) ==
    IF ~dirResp.ok
    THEN GateExcept(Emails[u])
    ELSE IF dirResp.value \in {"NotFound", "NoEmail"}
    THEN Reject("NoContact")
    ELSE IF kind \notin OnboardingKinds /\ dirResp.value = "Unverified"
    THEN Reject("Unverified")
    ELSE IF ~prefResp.ok
    THEN GateExcept(Emails[u])
    ELSE IF ~prefResp.value.exists \/ DOMAIN prefResp.value.row = {}
    THEN NoPreferences(Emails[u])
    ELSE IF ~PreferenceEnabled(prefResp.value.row, kind)
    THEN Reject("PreferenceOptOut")
    ELSE Allow(Emails[u])

(* the preference query is reached only past the two early returns *)
PrefLookupMade(kind, dirResp) ==
    /\ dirResp.ok
    /\ dirResp.value \notin {"NotFound", "NoEmail"}
    /\ (kind \in OnboardingKinds \/ dirResp.value = "Verified")

(* the lookup that raised, if one did *)
LookupRaised(kind, dirResp, prefResp) ==
    IF ~dirResp.ok THEN "get_user_by_id"
    ELSE IF PrefLookupMade(kind, dirResp) /\ ~prefResp.ok
    THEN "notification_preferences"
    ELSE None

NoGateIn ==
    [user |-> None, kind |-> None, dir |-> Lookup(FALSE, "NotFound"),
     pref |-> Lookup(FALSE, NoRow)]

----------------------------------------------------------------------------
(* The dispatch entry points send_job_complete / send_job_failed /         *)
(* send_quota_warning, one action per collaborator call or suspension.     *)

(* A caller invokes one of the entry points; valid is FALSE for a request *)
(* whose structured fields cannot be rendered: results without one of its *)
(* keys (send_job_complete), limit = 0 (send_quota_warning)                *)
SubmitRequest(ops, users, csvs, maxReq, valids) ==
    /\ pc \in {"idle", "done"}
    /\ nreq < maxReq
    /\ \E op \in ops, u \in users, csv \in csvs, valid \in valids :
          /\ (op # "send_job_complete") => csv = NoCsv
          /\ req' = [rid |-> nreq + 1, op |-> op, user_id |-> u, csv |-> csv,
                     valid |-> valid]
    /\ nreq' = nreq + 1
    /\ pc' = "gate"
    /\ should_send' = FALSE /\ user_email' = None /\ gate_cause' = None
    /\ lookup_raised' = None /\ gate_in' = gate_in
    /\ attachments' = FALSE /\ download_section' = ""
    /\ attempt' = 0 /\ last_error' = NoError /\ email_id' = NoId
    /\ result' = NoResult
    /\ transport_log' = <<>> /\ sleeps' = <<>>
    /\ blob_calls' = 0 /\ blob_out' = None /\ audit_errors' = 0
    /\ UNCHANGED <<envVars, audit, pass_log, limVars, now>>

Submit(ops, users, csvs, maxReq) == SubmitRequest(ops, users, csvs, maxReq, {TRUE})

(* a caller that awaits each dispatch call before it makes the next, as   *)
(* the callers in tests/ do: no dispatch is suspended when it calls       *)
SubmitAwaited(ops, users, csvs, maxReq) ==
    /\ waiting = <<>>
    /\ Submit(ops, users, csvs, maxReq)

SubmitMalformed(users, csvs, maxReq) ==
    SubmitRequest({"send_job_complete", "send_quota_warning"}, users, csvs,
                  maxReq, {FALSE})

SubmitMalformedAwaited(users, csvs, maxReq) ==
    /\ waiting = <<>>
    /\ SubmitMalformed(users, csvs, maxReq)

(* "should_send, user_email = await self._check_user_preferences(...)"     *)
(* followed by "if not should_send: return {...}"                          *)
GateReturnsIgnoringDecision(d) ==
    /\ result' = result
    /\ pc' = IF req.op = "send_job_complete" THEN "route" ELSE "send"
    /\ pass_log' = Append(pass_log, [user |-> req.user_id, t |-> now])

GateReturns(d) ==
    IF ~d.should_send
    THEN /\ result' = ReturnReason("user_preferences_or_unverified_email")
         /\ pc' = "done"
         /\ pass_log' = pass_log
    ELSE IF req.op = "send_job_complete"
    THEN /\ result' = result
         /\ pc' = "route"
         /\ pass_log' = Append(pass_log, [user |-> req.user_id, t |-> now])
    ELSE \* the message is built from the arguments right after the gate
         /\ result' = IF req.valid THEN result ELSE Raised(RequestError)
         /\ pc' = IF req.valid THEN "send" ELSE "done"
         /\ pass_log' = Append(pass_log, [user |-> req.user_id, t |-> now])

Gate(dirResps, prefResps) ==
    /\ pc = "gate"
    /\ \E dirResp \in dirResps, prefResp \in prefResps :
          LET d == CheckUserPreferences(req.user_id, KindOf(req.op),
                                        dirResp, prefResp)
          IN  /\ should_send' = d.should_send
              /\ user_email' = d.user_email
              /\ gate_cause' = d.cause
              /\ lookup_raised' = LookupRaised(KindOf(req.op), dirResp, prefResp)
              /\ GateReturns(d)
    /\ gate_in' = gate_in
    /\ UNCHANGED <<envVars, nreq, req, routeVars, loopVars, traceVars, audit,
                   limVars, now>>

(* a direct call of _check_user_preferences(user_id, notification_type)   *)
(* with the arguments and lookup answers held in gate_in                   *)
GateInputs(users, kinds, dirResps, prefResps) ==
    [user : users, kind : kinds, dir : dirResps, pref : prefResps]

CheckPreferences ==
    /\ pc = "idle"
    /\ gate_in # NoGateIn
    /\ LET d == CheckUserPreferences(gate_in.user, gate_in.kind, gate_in.dir,
                                      gate_in.pref)
       IN  /\ should_send' = d.should_send
           /\ user_email' = d.user_email
           /\ gate_cause' = d.cause
           /\ lookup_raised' = LookupRaised(gate_in.kind, gate_in.dir, gate_in.pref)
    /\ pc' = "done"
    /\ UNCHANGED <<envVars, nreq, req, gate_in, routeVars, loopVars, result,
                   traceVars, audit, pass_log, limVars, now>>

(* send_job_complete: "if csv_data:" attachment or storage link;           *)
(* _upload_to_storage raises when the upload raises or when the response   *)
(* carries no signedURL                                                     *)
BlobOutcomes == {"ok", "upload_error", "no_signed_url"}

(* "if csv_size < self.attachment_threshold_bytes" *)
InlineInclusive(csv_size) == csv_size <= attachment_threshold_bytes

Inline(csv_size) == csv_size < attachment_threshold_bytes

(* "attachments = None" stays as it is on the storage path *)
AttachedWithLinkToo == TRUE

AttachedWithLink == FALSE

Route(blobOuts) ==
    /\ pc = "route"
    /\ IF req.csv = NoCsv \/ req.csv = 0
       THEN /\ attachments' = FALSE
            /\ download_section' = ""
            /\ blob_calls' = blob_calls
            /\ blob_out' = blob_out
       ELSE IF Inline(req.csv)
       THEN /\ attachments' = TRUE
            /\ download_section' = "attached"
            /\ blob_calls' = blob_calls
            /\ blob_out' = blob_out
       ELSE \E out \in blobOuts :
            /\ attachments' = AttachedWithLink
            /\ download_section' = IF out = "ok" THEN "link" ELSE "error"
            /\ blob_calls' = blob_calls + (IF out = "upload_error" THEN 1 ELSE 2)
            /\ blob_out' = out
    \* the html and the subject are built from results after the routing
    /\ result' = IF req.valid THEN result ELSE Raised(RequestError)
    /\ pc' = IF req.valid THEN "send" ELSE "done"
    /\ UNCHANGED <<envVars, nreq, req, gateVars, loopVars,
                   transport_log, sleeps, audit_errors, audit, pass_log,
                   limVars, now>>

(* "except Exception as e:" of the retry loop, up to the branch on attempt *)
OnExceptionAlwaysSleeps(e) ==
    /\ last_error' = e
    /\ pc' = "sleep"

OnException(e) ==
    /\ last_error' = e
    /\ pc' = IF attempt < max_retries - 1 THEN "sleep" ELSE "log_failed"

(* "for attempt in range(self.max_retries)" has no iteration left *)
LoopExitLogsFailed ==
    /\ pc = "send"
    /\ attempt >= max_retries
    /\ result' = ReturnError(UnknownError)
    /\ audit' = Append(audit, [rid |-> req.rid, user_id |-> req.user_id,
                                kind |-> KindOf(req.op), status |-> "failed",
                                email_id |-> NoId, error |-> UnknownError])
    /\ pc' = "done"
    /\ UNCHANGED <<envVars, nreq, req, gateVars, routeVars, loopVars,
                   traceVars, pass_log, limVars, now>>

LoopExit ==
    /\ pc = "send"
    /\ attempt >= max_retries
    /\ result' = ReturnError(UnknownError)
    /\ pc' = "done"
    /\ UNCHANGED <<envVars, nreq, req, gateVars, routeVars, loopVars,
                   traceVars, audit, pass_log, limVars, now>>

(* "result = resend.Emails.send(email_data)" *)
SendAttempt(outs) ==
    /\ pc = "send"
    /\ attempt < max_retries
    /\ \E out \in outs :
          /\ transport_log' = Append(transport_log,
                 [n |-> attempt + 1, ok |-> (out = "ok"), to |-> user_email,
                  attachment |-> attachments, body |-> download_section])
          /\ IF out = "ok"
             THEN /\ email_id' = TransportId(req.rid, attempt + 1)
                  /\ pc' = "log_sent"
                  /\ last_error' = last_error
             ELSE /\ email_id' = email_id
                  /\ OnException(TransportError(attempt + 1))
    /\ UNCHANGED <<envVars, nreq, req, gateVars, routeVars, attempt, result,
                   sleeps, blob_calls, blob_out, audit_errors, audit,
                   pass_log,
                   limVars, now>>

(* "self.supabase.table('notification_logs').insert({... SENT ...})" and   *)
(* "return {success: True, email_id: result['id']}"                        *)
SentRecordWithoutId ==
    [rid |-> req.rid, user_id |-> req.user_id, kind |-> KindOf(req.op),
     status |-> "sent", email_id |-> NoId, error |-> NoError]

SentRecord ==
    [rid |-> req.rid, user_id |-> req.user_id, kind |-> KindOf(req.op),
     status |-> "sent", email_id |-> email_id, error |-> NoError]

LogSent(outs) ==
    /\ pc = "log_sent"
    /\ \E out \in outs :
          IF out = "ok"
          THEN /\ audit' = Append(audit, SentRecord)
               /\ result' = ReturnSuccess(email_id)
               /\ pc' = "done"
               /\ UNCHANGED <<last_error, audit_errors>>
          ELSE /\ audit_errors' = audit_errors + 1
               /\ OnException(AuditError(attempt + 1))
               /\ UNCHANGED <<audit, result>>
    /\ UNCHANGED <<envVars, nreq, req, gateVars, routeVars, attempt, email_id,
                   transport_log, sleeps, blob_calls, blob_out, pass_log,
                   limVars, now>>

(* "await asyncio.sleep(5 * (attempt + 1))", then the next iteration *)
BackoffDelay(a) == BackoffBase * (a + 1)



(* "await asyncio.sleep(...)" seen from the event loop: every coroutine    *)
(* that reaches it is suspended with its local state until its wake-up    *)
(* time, and the loop is free to run another dispatch; the suspended       *)
(* coroutine holds no lock                                                 *)
CurFrame ==
    [req |-> req, should_send |-> should_send, user_email |-> user_email,
     gate_cause |-> gate_cause, lookup_raised |-> lookup_raised,
     attachments |-> attachments, download_section |-> download_section,
     attempt |-> attempt, last_error |-> last_error, email_id |-> email_id,
     transport_log |-> transport_log, sleeps |-> sleeps,
     blob_calls |-> blob_calls, blob_out |-> blob_out,
     audit_errors |-> audit_errors]

SuspendBlocking ==
    /\ pc = "sleep"
    /\ waiting' = Append(waiting, [frame |-> CurFrame,
                                    wake |-> now + BackoffDelay(attempt)])
    /\ pc' = "blocked"
    /\ UNCHANGED <<max_retries, nreq, req, gateVars, routeVars, loopVars,
                   result, traceVars, audit, pass_log, limVars, now>>

Suspend ==
    /\ pc = "sleep"
    /\ waiting' = Append(waiting, [frame |-> CurFrame,
                                    wake |-> now + BackoffDelay(attempt)])
    /\ pc' = "idle"
    /\ UNCHANGED <<max_retries, nreq, req, gateVars, routeVars, loopVars,
                   result, traceVars, audit, pass_log, limVars, now>>

(* the timer that is due first, the one set first among equal times *)
NextDue(ws) ==
    CHOOSE i \in DOMAIN ws :
        \A j \in DOMAIN ws :
            ws[i].wake < ws[j].wake \/ (ws[i].wake = ws[j].wake /\ i <= j)

RemoveAt(ws, i) == SubSeq(ws, 1, i - 1) \o SubSeq(ws, i + 1, Len(ws))

(* the loop is not running another coroutine and the earliest sleep is    *)
(* over: that coroutine goes on with the next iteration of its retry loop *)
Resume ==
    /\ pc \in {"idle", "done", "blocked"}
    /\ waiting # <<>>
    /\ LET w == waiting[NextDue(waiting)] IN
          /\ waiting' = RemoveAt(waiting, NextDue(waiting))
          /\ now' = Max(now, w.wake)
          /\ req' = w.frame.req
          /\ should_send' = w.frame.should_send
          /\ user_email' = w.frame.user_email
          /\ gate_cause' = w.frame.gate_cause
          /\ lookup_raised' = w.frame.lookup_raised
          /\ attachments' = w.frame.attachments
          /\ download_section' = w.frame.download_section
          /\ attempt' = w.frame.attempt + 1
          /\ last_error' = w.frame.last_error
          /\ email_id' = w.frame.email_id
          /\ transport_log' = w.frame.transport_log
          /\ sleeps' = Append(w.frame.sleeps, BackoffDelay(w.frame.attempt))
          /\ blob_calls' = w.frame.blob_calls
          /\ blob_out' = w.frame.blob_out
          /\ audit_errors' = w.frame.audit_errors
    /\ result' = NoResult
    /\ pc' = "send"
    /\ UNCHANGED <<max_retries, nreq, gate_in, audit, pass_log, limVars>>

(* the caller cancels a task that is suspended in asyncio.sleep: the loop *)
(* is not running another coroutine, CancelledError is raised at the      *)
(* await, inside the except block, and leaves the coroutine                *)
Cancel ==
    /\ pc \in {"idle", "done"}
    /\ \E i \in DOMAIN waiting :
          LET w == waiting[i] IN
             /\ waiting' = RemoveAt(waiting, i)
             /\ req' = w.frame.req
             /\ should_send' = w.frame.should_send
             /\ user_email' = w.frame.user_email
             /\ gate_cause' = w.frame.gate_cause
             /\ lookup_raised' = w.frame.lookup_raised
             /\ attachments' = w.frame.attachments
             /\ download_section' = w.frame.download_section
             /\ attempt' = w.frame.attempt
             /\ last_error' = w.frame.last_error
             /\ email_id' = w.frame.email_id
             /\ transport_log' = w.frame.transport_log
             /\ sleeps' = w.frame.sleeps
             /\ blob_calls' = w.frame.blob_calls
             /\ blob_out' = w.frame.blob_out
             /\ audit_errors' = w.frame.audit_errors
             /\ result' = Raised(CancelledError(w.frame.attempt + 1))
    /\ pc' = "done"
    /\ UNCHANGED <<max_retries, nreq, gate_in, audit, pass_log, limVars, now>>

(* final attempt failed: insert({... FAILED ...}) and                      *)
(* "return {success: False, error: last_error}"; the insert stands inside  *)
(* the except block, so an exception it raises leaves the coroutine        *)
FailedRecord ==
    [rid |-> req.rid, user_id |-> req.user_id, kind |-> KindOf(req.op),
     status |-> "failed", email_id |-> NoId, error |-> last_error]

LogFailed(outs) ==
    /\ pc = "log_failed"
    /\ \E out \in outs :
          IF out = "ok"
          THEN /\ audit' = Append(audit, FailedRecord)
               /\ result' = ReturnError(last_error)
               /\ audit_errors' = audit_errors
          ELSE /\ audit' = audit
               /\ result' = Raised(AuditError(attempt + 1))
               /\ audit_errors' = audit_errors + 1
    /\ pc' = "done"
    /\ UNCHANGED <<envVars, nreq, req, gateVars, routeVars, loopVars,
                   transport_log, sleeps, blob_calls, blob_out, pass_log,
                   limVars, now>>

----------------------------------------------------------------------------
(* RateLimiter (backend/rate_limiter.py).  Each method runs its body under *)
(* self._lock without awaiting inside it, so each is one step.             *)

window == WindowSeconds

(* no time: the value of a time field that holds none *)
NoTime == 0 - 1

NoOutcome ==
    [op |-> None, key |-> None, admitted |-> FALSE, error |-> None,
     retry_after |-> 0, remaining |-> 0, full_before |-> NoTime]

(* self._calls[user_id] of a defaultdict(list) *)
CallsOf(k) == IF k \in DOMAIN calls THEN calls[k] ELSE <<>>

SetCallsShared(k, v) == [u \in DOMAIN calls \cup {k} |-> v]

SetCalls(k, v) == [u \in DOMAIN calls \cup {k} |-> IF u = k THEN v ELSE calls[u]]

(* [call_time for call_time in ... if call_time > cutoff] *)
PruneInclusive(list, cutoff) == SelectSeq(list, LAMBDA call_time : call_time >= cutoff)

PruneEager(list, cutoff) == SelectSeq(list, LAMBDA call_time : call_time > cutoff + 1)

Prune(list, cutoff) == SelectSeq(list, LAMBDA call_time : call_time > cutoff)

(* "raise RateLimitExceeded(...)": the pruned list stays as it is *)
RejectedRecords(list, t) == Append(list, t)

RejectedDropsOldest(list, t) == Tail(list)

Rejected(list, t) == list

(* "self._calls[user_id].append(now)" *)
RecordReplaces(list, t) == <<t>>

RecordInFront(list, t) == <<t>> \o list

Record(list, t) == Append(list, t)

(* the admissions of key k that count against it at time t: inside the   *)
(* window and not cleared by a reset                                      *)
Counted(log, t) == SelectSeq(log, LAMBDA a : a.t > t - window /\ ~a.cleared)

FullAt(log, t) ==
    IF Len(Counted(log, t)) >= max_calls /\ Counted(log, t) # <<>>
    THEN Counted(log, t)[1].t
    ELSE NoTime

(* "if len(self._calls[user_id]) >= self.max_calls" *)
LimitExceededOffByOne(list) == Len(list) > max_calls

LimitExceeded(list) == Len(list) >= max_calls

CheckRateLimit(k) ==
    LET cutoff == now - window
        pruned == Prune(CallsOf(k), cutoff)
    IN  /\ LimitExceeded(pruned) \/ Len(admit_log[k]) < MaxAdmits
        /\ IF LimitExceeded(pruned)
           THEN IF pruned = <<>>
                THEN \* self._calls[user_id][0] of an empty list
                     /\ lim' = [NoOutcome EXCEPT !.op = "check_rate_limit",
                                    !.key = k, !.error = "IndexError",
                                    !.full_before = full_at[k]]
                     /\ calls' = SetCalls(k, pruned)
                     /\ admit_log' = admit_log
                     /\ full_at' = full_at
                ELSE /\ lim' = [NoOutcome EXCEPT !.op = "check_rate_limit",
                                    !.key = k, !.error = "RateLimitExceeded",
                                    !.retry_after = pruned[1] + window - now,
                                    !.full_before = full_at[k]]
                     /\ calls' = SetCalls(k, Rejected(pruned, now))
                     /\ admit_log' = admit_log
                     /\ full_at' = full_at
           ELSE /\ calls' = SetCalls(k, Record(pruned, now))
                /\ lim' = [NoOutcome EXCEPT !.op = "check_rate_limit",
                               !.key = k, !.admitted = TRUE,
                               !.full_before = full_at[k]]
                /\ admit_log' = [admit_log EXCEPT
                                    ![k] = Append(@, [t |-> now, cleared |-> FALSE])]
                /\ full_at' = [full_at EXCEPT ![k] = FullAt(admit_log'[k], now)]
        /\ UNCHANGED <<max_calls, now>>

ResetAll(k) ==
    /\ calls' = [u \in {} |-> <<>>]
    /\ lim' = [NoOutcome EXCEPT !.op = "reset", !.key = k]
    /\ admit_log' = [admit_log EXCEPT
                        ![k] = [i \in DOMAIN @ |-> [@[i] EXCEPT !.cleared = TRUE]]]
    /\ full_at' = [full_at EXCEPT ![k] = NoTime]
    /\ UNCHANGED <<max_calls, now>>

Reset(k) ==
    /\ calls' = [u \in DOMAIN calls \ {k} |-> calls[u]]
    /\ lim' = [NoOutcome EXCEPT !.op = "reset", !.key = k]
    /\ admit_log' = [admit_log EXCEPT
                        ![k] = [i \in DOMAIN @ |-> [@[i] EXCEPT !.cleared = TRUE]]]
    /\ full_at' = [full_at EXCEPT ![k] = NoTime]
    /\ UNCHANGED <<max_calls, now>>

GetRemainingRecords(k) ==
    LET cutoff == now - window
        pruned == Prune(CallsOf(k), cutoff)
    IN  /\ calls' = SetCalls(k, Append(pruned, now))
        /\ lim' = [NoOutcome EXCEPT !.op = "get_remaining", !.key = k,
                       !.remaining = Max(0, max_calls - Len(pruned))]
        /\ UNCHANGED <<max_calls, admit_log, full_at, now>>

GetRemainingUnpruned(k) ==
    LET cutoff == now - window
        pruned == Prune(CallsOf(k), cutoff)
    IN  /\ calls' = SetCalls(k, pruned)
        /\ lim' = [NoOutcome EXCEPT !.op = "get_remaining", !.key = k,
                       !.remaining = Max(0, max_calls - Len(CallsOf(k)))]
        /\ UNCHANGED <<max_calls, admit_log, full_at, now>>

GetRemaining(k) ==
    LET cutoff == now - window
        pruned == Prune(CallsOf(k), cutoff)
    IN  /\ calls' = SetCalls(k, pruned)
        /\ lim' = [NoOutcome EXCEPT !.op = "get_remaining", !.key = k,
                       !.remaining = Max(0, max_calls - Len(pruned))]
        /\ UNCHANGED <<max_calls, admit_log, full_at, now>>

CleanupKeepsEmpty ==
    LET cutoff == now - window
    IN  /\ calls' = [u \in DOMAIN calls |-> Prune(calls[u], cutoff)]
        /\ lim' = [NoOutcome EXCEPT !.op = "cleanup"]
        /\ UNCHANGED <<max_calls, admit_log, full_at, now>>

CleanupClears ==
    /\ calls' = [u \in {} |-> <<>>]
    /\ lim' = [NoOutcome EXCEPT !.op = "cleanup"]
    /\ UNCHANGED <<max_calls, admit_log, full_at, now>>

Cleanup ==
    LET cutoff == now - window
        kept == {u \in DOMAIN calls : Prune(calls[u], cutoff) # <<>>}
    IN  /\ calls' = [u \in kept |-> Prune(calls[u], cutoff)]
        /\ lim' = [NoOutcome EXCEPT !.op = "cleanup"]
        /\ UNCHANGED <<max_calls, admit_log, full_at, now>>

(* callers of the limiter that run concurrently on the event loop *)
Callers == {"c1", "c2", "c3"}

(* a call in progress: the method, its key, the free slots of the key and *)
(* the clock when the call was made, the clock when its body ran          *)
NoCall == [op |-> None, key |-> None, free |-> 0, t |-> NoTime, tb |-> NoTime]

FreeSlots(k) == Max(0, max_calls - Len(Prune(CallsOf(k), now - window)))

(* a coroutine calls check_rate_limit(k) and reaches "async with self._lock" *)
CallCheck(c, k) ==
    /\ cpc[c] \in {"idle", "done"}
    /\ cpc' = [cpc EXCEPT ![c] = "acquire"]
    /\ ccall' = [ccall EXCEPT ![c] = [op |-> "check_rate_limit", key |-> k,
                                      free |-> FreeSlots(k), t |-> now,
                                      tb |-> NoTime]]
    /\ cres' = [cres EXCEPT ![c] = NoOutcome]
    /\ UNCHANGED <<dispatchVars, max_calls, calls, lim, admit_log, full_at,
                   lock, now>>

(* asyncio.Lock.acquire: granted when the lock is not held *)
AcquireLock(c) ==
    /\ cpc[c] = "acquire"
    /\ lock = None
    /\ lock' = c
    /\ cpc' = [cpc EXCEPT ![c] = "locked"]
    /\ UNCHANGED <<dispatchVars, max_calls, calls, lim, admit_log, full_at,
                   ccall, cres, now>>

(* the body of check_rate_limit, which holds no await, and the release of *)
(* the lock when the "async with" block is left by return or by raise     *)
RunCheckKeepsLockOnRaise(c) ==
    /\ cpc[c] = "locked"
    /\ lock = c
    /\ CheckRateLimit(ccall[c].key)
    /\ lock' = IF lim'.error = None THEN None ELSE c
    /\ cpc' = [cpc EXCEPT ![c] = "done"]
    /\ ccall' = [ccall EXCEPT ![c].tb = now]
    /\ cres' = [cres EXCEPT ![c] = lim']
    /\ UNCHANGED dispatchVars

RunCheck(c) ==
    /\ cpc[c] = "locked"
    /\ lock = c
    /\ CheckRateLimit(ccall[c].key)
    /\ lock' = None
    /\ cpc' = [cpc EXCEPT ![c] = "done"]
    /\ ccall' = [ccall EXCEPT ![c].tb = now]
    /\ cres' = [cres EXCEPT ![c] = lim']
    /\ UNCHANGED dispatchVars

(* a coroutine calls get_remaining(k), reset(k) or cleanup() and reaches  *)
(* "async with self._lock"                                                 *)
Methods == {"get_remaining", "reset", "cleanup"}

CallMethod(c, op, k) ==
    /\ cpc[c] \in {"idle", "done"}
    /\ cpc' = [cpc EXCEPT ![c] = "acquire"]
    /\ ccall' = [ccall EXCEPT ![c] = [op |-> op,
                                      key |-> IF op = "cleanup" THEN None ELSE k,
                                      free |-> FreeSlots(k), t |-> now,
                                      tb |-> NoTime]]
    /\ cres' = [cres EXCEPT ![c] = NoOutcome]
    /\ UNCHANGED <<dispatchVars, max_calls, calls, lim, admit_log, full_at,
                   lock, now>>

(* the body of get_remaining, reset or cleanup and the release of the lock *)
RunMethod(c) ==
    /\ cpc[c] = "locked"
    /\ lock = c
    /\ CASE ccall[c].op = "get_remaining" -> GetRemaining(ccall[c].key)
         [] ccall[c].op = "reset" -> Reset(ccall[c].key)
         [] ccall[c].op = "cleanup" -> Cleanup
         [] OTHER -> FALSE
    /\ lock' = None
    /\ cpc' = [cpc EXCEPT ![c] = "done"]
    /\ ccall' = [ccall EXCEPT ![c].tb = now]
    /\ cres' = [cres EXCEPT ![c] = lim']
    /\ UNCHANGED dispatchVars

(* time passes *)
Tick ==
    /\ now < MaxTime
    /\ now' = now + 1
    /\ admit_log' = [k \in Users |->
                        SelectSeq(admit_log[k], LAMBDA a : a.t > now' - window)]
    /\ UNCHANGED <<max_calls, calls, lim, full_at>>

----------------------------------------------------------------------------
(* Successive dispatch calls for one user under every combination of      *)
(* collaborator failures                                                   *)

Outcomes == {"ok", "fail"}

InitFrame ==
    /\ waiting = <<>>
    /\ pc = "idle" /\ nreq = 0 /\ req = NoReq
    /\ should_send = FALSE /\ user_email = None /\ gate_cause = None
    /\ lookup_raised = None
    /\ attachments = FALSE /\ download_section = ""
    /\ attempt = 0 /\ last_error = NoError /\ email_id = NoId
    /\ result = NoResult
    /\ transport_log = <<>> /\ sleeps = <<>>
    /\ blob_calls = 0 /\ blob_out = None /\ audit_errors = 0
    /\ audit = <<>> /\ pass_log = <<>>

(* notification_rate_limiter = RateLimiter(...): the module's instance *)
InitLimiter ==
    /\ max_calls = MaxCalls
    /\ calls = [k \in {} |-> <<>>]
    /\ lim = NoOutcome
    /\ admit_log = [k \in Users |-> <<>>]
    /\ full_at = [k \in Users |-> NoTime]
    /\ lock = None
    /\ cpc = [c \in Callers |-> "idle"]
    /\ ccall = [c \in Callers |-> NoCall]
    /\ cres = [c \in Callers |-> NoOutcome]
    /\ now = 0

Init ==
    /\ max_retries \in 0..MaxRetriesCfg
    /\ gate_in = NoGateIn
    /\ InitFrame
    /\ InitLimiter

Next ==
    \/ SubmitAwaited(Ops, {"u1"}, CsvSizes, MaxRequests)
    \/ Gate(DirResponses, PrefResponses(DispatchKinds))
    \/ Route(BlobOutcomes)
    \/ LoopExit
    \/ SendAttempt(Outcomes)
    \/ LogSent(Outcomes)
    \/ Suspend
    \/ Resume
    \/ LogFailed(Outcomes)

Spec == Init /\ [][Next]_vars

(* The same dispatch calls on a running event loop: a coroutine that has  *)
(* been called is run to its next await, and every collaborator call and  *)
(* every sleep it awaits returns or raises                                 *)
Pipeline ==
    \/ Gate(DirResponses, PrefResponses(DispatchKinds))
    \/ Route(BlobOutcomes)
    \/ LoopExit
    \/ SendAttempt(Outcomes)
    \/ LogSent(Outcomes)
    \/ Suspend
    \/ Resume
    \/ LogFailed(Outcomes)

NextLive ==
    \/ SubmitAwaited(Ops, {"u1"}, CsvSizes, MaxLiveRequests)
    \/ Pipeline

SpecLive == Init /\ [][NextLive]_vars /\ WF_vars(Pipeline)

----------------------------------------------------------------------------
(* Dispatch calls for one user whose directory entry and preference row   *)
(* change between the calls; gate_in holds what the two stores hold, and  *)
(* the gate queries them on every call                                     *)

FreshOps == {"send_job_complete", "send_job_failed"}

StoreContents ==
    [user : {"u1"}, kind : {None}, dir : DirResponses,
     pref : PrefResponses({KindOf(op) : op \in FreshOps})]

(* "self.supabase.table('notification_preferences').select('*')...execute()" *)
PreferenceAnswerReused ==
    IF \E i \in DOMAIN audit : audit[i].user_id = req.user_id /\ audit[i].status = "sent"
    THEN Lookup(TRUE, NoRow)
    ELSE gate_in.pref

PreferenceAnswer == gate_in.pref

GateFresh == Gate({gate_in.dir}, {PreferenceAnswer})

(* the user verifies the address, removes it, edits the preferences, ...  *)
ChangeStore ==
    /\ pc \in {"idle", "done"}
    /\ gate_in' \in StoreContents \ {gate_in}
    /\ UNCHANGED <<envVars, pc, nreq, req, should_send, user_email, gate_cause,
                   lookup_raised, routeVars, loopVars, result, traceVars,
                   audit, pass_log, limVars, now>>

InitFresh ==
    /\ max_retries = DefaultMaxRetries
    /\ gate_in \in StoreContents
    /\ InitFrame
    /\ InitLimiter

NextFresh ==
    \/ Submit(FreshOps, {"u1"}, {NoCsv}, MaxRequests)
    \/ GateFresh
    \/ Route({"ok"})
    \/ SendAttempt({"ok"})
    \/ LogSent({"ok"})
    \/ ChangeStore

SpecFresh == InitFresh /\ [][NextFresh]_vars

----------------------------------------------------------------------------
(* Dispatch calls among which some carry a malformed request *)

NextMalformed ==
    \/ Next
    \/ SubmitMalformedAwaited({"u1"}, CsvSizes, MaxRequests)

SpecMalformed == Init /\ [][NextMalformed]_vars

----------------------------------------------------------------------------
(* Dispatch calls that the caller may cancel during a backoff delay *)

NextCancel ==
    \/ Next
    \/ Cancel

SpecCancel == Init /\ [][NextCancel]_vars

----------------------------------------------------------------------------
(* Dispatch coroutines of several users on one event loop: a coroutine    *)
(* that sleeps between attempts is suspended and another may run          *)

InitOverlap ==
    /\ max_retries = DefaultMaxRetries
    /\ gate_in = NoGateIn
    /\ InitFrame
    /\ InitLimiter

RunOther ==
    \/ Submit(Ops, Users, {NoCsv, 1}, MaxOverlap)
    \/ Gate(DirResponses, PrefResponses({}))
    \/ Route(BlobOutcomes)
    \/ SendAttempt(Outcomes)
    \/ LogSent({"ok"})
    \/ LogFailed({"ok"})
    \/ Suspend

NextOverlap ==
    \/ RunOther
    \/ Resume

SpecOverlap == InitOverlap /\ [][NextOverlap]_vars

----------------------------------------------------------------------------
(* A burst of dispatch calls with every collaborator answering *)

InitBurst ==
    /\ max_retries = DefaultMaxRetries
    /\ gate_in = NoGateIn
    /\ InitFrame
    /\ InitLimiter

TickBurst == Tick /\ UNCHANGED <<dispatchVars, lockVars>>

NextBurst ==
    \/ Submit(Ops, Users, {NoCsv}, MaxBurst)
    \/ Gate(DirResponses, PrefResponses({}))
    \/ Route(BlobOutcomes)
    \/ SendAttempt({"ok"})
    \/ LogSent({"ok"})
    \/ TickBurst

SpecBurst == InitBurst /\ [][NextBurst]_vars

----------------------------------------------------------------------------
(* The limiter on its own *)

InitLimiterOps ==
    /\ max_retries = DefaultMaxRetries
    /\ gate_in = NoGateIn
    /\ InitFrame
    /\ InitLimiter

NextLimiter ==
    \/ \E k \in Users : CheckRateLimit(k) /\ UNCHANGED <<dispatchVars, lockVars>>
    \/ \E k \in Users : GetRemaining(k) /\ UNCHANGED <<dispatchVars, lockVars>>
    \/ \E k \in Users : Reset(k) /\ UNCHANGED <<dispatchVars, lockVars>>
    \/ Cleanup /\ UNCHANGED <<dispatchVars, lockVars>>
    \/ Tick /\ UNCHANGED <<dispatchVars, lockVars>>

SpecLimiter == InitLimiterOps /\ [][NextLimiter]_vars

----------------------------------------------------------------------------
(* The limiter under every configured max_calls from 0 on:                *)
(* RateLimiter(max_calls=n, window_seconds=...)                            *)

InitLimiterCfg ==
    /\ max_retries = DefaultMaxRetries
    /\ gate_in = NoGateIn
    /\ InitFrame
    /\ calls = [k \in {} |-> <<>>]
    /\ max_calls \in 0..MaxCalls
    /\ lim = NoOutcome
    /\ admit_log = [k \in Users |-> <<>>]
    /\ full_at = [k \in Users |-> NoTime]
    /\ lock = None
    /\ cpc = [c \in Callers |-> "idle"]
    /\ ccall = [c \in Callers |-> NoCall]
    /\ cres = [c \in Callers |-> NoOutcome]
    /\ now = 0

SpecLimiterCfg == InitLimiterCfg /\ [][NextLimiter]_vars

----------------------------------------------------------------------------
(* The preference gate on its own, for every notification kind *)

InitGate ==
    /\ max_retries = DefaultMaxRetries
    /\ gate_in \in GateInputs(Users, NotificationType, DirResponses,
                               PrefResponses(NotificationType))
    /\ InitFrame
    /\ InitLimiter

NextGate == CheckPreferences

SpecGate == InitGate /\ [][NextGate]_vars

----------------------------------------------------------------------------
(* Coroutines that call check_rate_limit concurrently *)

(* time passes; the outcomes of the calls that have returned are kept only *)
(* for the clock value at which they returned                              *)
TickConcurrent ==
    /\ Tick
    /\ cpc' = [c \in Callers |-> IF cpc[c] = "done" THEN "idle" ELSE cpc[c]]
    /\ ccall' = [c \in Callers |-> IF cpc[c] = "done" THEN NoCall ELSE ccall[c]]
    /\ cres' = [c \in Callers |-> IF cpc[c] = "done" THEN NoOutcome ELSE cres[c]]
    /\ UNCHANGED <<dispatchVars, lock>>

NextConcurrent ==
    \/ \E c \in Callers : CallCheck(c, "u1")
    \/ \E c \in Callers : AcquireLock(c)
    \/ \E c \in Callers : RunCheck(c)
    \/ TickConcurrent

SpecConcurrent == InitLimiterOps /\ [][NextConcurrent]_vars

----------------------------------------------------------------------------
(* Coroutines that call any of the limiter's methods concurrently.        *)
(* asyncio.Lock wakes its waiters in the order they came, so a waiting    *)
(* caller is not passed over for ever; a body that holds the lock has no  *)
(* await and runs to its end                                               *)

LockCallers == {"c1", "c2"}

(* check_rate_limit calls for k that have not run their body yet *)
PendingChecks(k) ==
    {c \in Callers : /\ cpc[c] \in {"acquire", "locked"}
                     /\ ccall[c].op = "check_rate_limit" /\ ccall[c].key = k}

CallCheckLock(c, k) ==
    /\ Len(admit_log[k]) + Cardinality(PendingChecks(k)) < MaxLockAdmits
    /\ CallCheck(c, k)

RunCheckLock(c) ==
    /\ ccall[c].op = "check_rate_limit"
    /\ RunCheck(c)

InitLock ==
    /\ max_retries = DefaultMaxRetries
    /\ gate_in = NoGateIn
    /\ InitFrame
    /\ calls = [k \in {} |-> <<>>]
    /\ max_calls = MaxLockCalls
    /\ lim = NoOutcome
    /\ admit_log = [k \in Users |-> <<>>]
    /\ full_at = [k \in Users |-> NoTime]
    /\ lock = None
    /\ cpc = [c \in Callers |-> "idle"]
    /\ ccall = [c \in Callers |-> NoCall]
    /\ cres = [c \in Callers |-> NoOutcome]
    /\ now = 0

NextLock ==
    \/ \E c \in LockCallers : CallCheckLock(c, "u1")
    \/ \E op \in Methods : CallMethod("c2", op, "u1")
    \/ \E c \in LockCallers : AcquireLock(c)
    \/ \E c \in LockCallers : RunCheckLock(c)
    \/ \E c \in LockCallers : RunMethod(c)
    \/ now < MaxLockTime /\ TickConcurrent

FairLock ==
    \A c \in LockCallers :
        /\ SF_vars(AcquireLock(c))
        /\ WF_vars(RunCheckLock(c))
        /\ WF_vars(RunMethod(c))

SpecLock == InitLock /\ [][NextLock]_vars /\ FairLock

----------------------------------------------------------------------------
(* Properties *)

Accepted == {i \in DOMAIN transport_log : transport_log[i].ok}
AcceptedIds == {TransportId(req.rid, transport_log[i].n) : i \in Accepted}
AuditOf(rid) == SelectSeq(audit, LAMBDA r : r.rid = rid)
Finished == pc = "done"
GateRejected == Finished /\ ~should_send
Backoffs(k) == [i \in 1..k |-> BackoffBase * i]

(* C1: a dispatch call that passes the gate when max_calls calls of the    *)
(* same user have passed it within the window (all of that user's calls so *)
(* far lie in the window) is rejected with reason RateLimited and makes no *)
(* Transport invocation.  (The result dict has no retry_after key at all.) *)
EarlierPasses ==
    {i \in 1..(Len(pass_log) - 1) : pass_log[i].user = req.user_id}

BeyondLimit ==
    /\ should_send
    /\ pass_log # <<>>
    /\ Cardinality(EarlierPasses) >= max_calls
    /\ \A i \in EarlierPasses : pass_log[i].t > pass_log[Len(pass_log)].t - window

C1_RateLimitEnforced ==
    BeyondLimit =>
        /\ transport_log = <<>>
        /\ Finished => result.reason = "RateLimited"

(* C2: once Transport has returned an id for a request, no further         *)
(* Transport invocation is made for that request.                          *)
C2_SentIsTerminal ==
    [][(Accepted # {} /\ req' = req) => transport_log' = transport_log]_vars

(* C3: if Transport accepted the message and an audit insert then failed,  *)
(* the dispatch returns success=true with the accepted transport id.       *)
C3_AuditFailureKeepsSuccess ==
    (Finished /\ Accepted # {} /\ audit_errors > 0) =>
        /\ result.kind = "return"
        /\ result.success
        /\ result.email_id \in AcceptedIds

(* C4: every dispatch call ends with a structured result; no collaborator's *)
(* exception reaches the caller.                                            *)
C4_StructuredResult == Finished => result.kind = "return"

(* C5: when no audit insert failed, a dispatch that returns success has    *)
(* written exactly one audit record for its request, with status 'sent'    *)
(* and the transport id that Transport returned.                           *)
C5_OneSentRecord ==
    (Finished /\ result.kind = "return" /\ result.success /\ audit_errors = 0) =>
        /\ Len(AuditOf(req.rid)) = 1
        /\ AuditOf(req.rid)[1].status = "sent"
        /\ AuditOf(req.rid)[1].email_id = result.email_id
        /\ AcceptedIds = {result.email_id}

C5_Witness ==
    /\ Finished /\ result.success /\ audit_errors = 0
    /\ Len(transport_log) = 2
    /\ req.rid = 2 /\ Len(audit) = 2

(* C6: when Transport fails on every attempt (max_retries >= 1) the        *)
(* dispatch makes max_retries invocations and max_retries-1 waits of 5, 10,*)
(* ... seconds, returns success=false with the last error, and (the audit  *)
(* store accepting the insert) has written exactly one 'failed' record     *)
(* that carries the last error.                                            *)
AllAttemptsFailed ==
    Finished /\ should_send /\ max_retries >= 1 /\ Accepted = {}

C6_ExhaustedSend ==
    AllAttemptsFailed =>
        /\ Len(transport_log) = max_retries
        /\ sleeps = Backoffs(max_retries - 1)
        /\ result = ReturnError(TransportError(max_retries))
        /\ audit_errors = 0 =>
              /\ Len(AuditOf(req.rid)) = 1
              /\ AuditOf(req.rid)[1].status = "failed"
              /\ AuditOf(req.rid)[1].error = TransportError(max_retries)

(* C7: if Transport fails on the first k attempts and succeeds on attempt  *)
(* k+1 (k < max_retries), the dispatch returns success after exactly k+1   *)
(* invocations and k waits of 5*1, ..., 5*k seconds, and (the audit store  *)
(* accepting the insert) has written exactly one record, 'sent'.           *)
FirstSuccessAt(k) ==
    /\ k + 1 \in DOMAIN transport_log
    /\ transport_log[k + 1].ok
    /\ \A i \in 1..k : ~transport_log[i].ok

C7_SuccessAfterFailures ==
    \A k \in 0..(max_retries - 1) :
        (Finished /\ should_send /\ FirstSuccessAt(k)) =>
            /\ result.kind = "return" /\ result.success
            /\ Len(transport_log) = k + 1
            /\ sleeps = Backoffs(k)
            /\ audit_errors = 0 =>
                  /\ Len(AuditOf(req.rid)) = 1
                  /\ AuditOf(req.rid)[1].status = "sent"

(* C8: a request rejected by the gate returns success=false at once and    *)
(* has made no Transport invocation, no audit write, no Blob Store call,   *)
(* no wait, and recorded no rate-limiter entry.                            *)
C8_GateRejectionNoSideEffects ==
    GateRejected =>
        /\ result.kind = "return" /\ ~result.success
        /\ transport_log = <<>>
        /\ AuditOf(req.rid) = <<>>
        /\ blob_calls = 0
        /\ sleeps = <<>>
        /\ DOMAIN calls = {}
        /\ \A k \in Users : admit_log[k] = <<>>

C8_Witness ==
    /\ GateRejected /\ gate_cause = "PreferenceOptOut"
    /\ req.rid = 2 /\ Len(audit) = 1

(* C9: the reason returned for a gate rejection names its cause:           *)
(* PreferenceOptOut, NoContact, Unverified or LookupError.                 *)
C9_ReasonIdentifiesCause == GateRejected => result.reason = gate_cause

(* C10 as stated: when max_calls calls of a key were admitted and are all  *)
(* still inside the window, the next check_rate_limit for the key is       *)
(* rejected with retry_after > 0.                                          *)
LiveAdmits(k) == SelectSeq(admit_log[k], LAMBDA a : a.t > now - window)
LiveAdmitsSinceReset(k) == SelectSeq(LiveAdmits(k), LAMBDA a : ~a.cleared)
RejectedNext == lim'.error = "RateLimitExceeded" /\ lim'.retry_after > 0

C10_Original ==
    [][\A k \in Users :
          (CheckRateLimit(k) /\ Len(LiveAdmits(k)) >= max_calls) => RejectedNext]_vars

(* C10 amended: when max_calls calls of a key were admitted, are all still *)
(* inside the window and no reset of the key came after them, the next     *)
(* check_rate_limit for the key is rejected with retry_after > 0.          *)
C10_RejectedAtLimit ==
    [][\A k \in Users :
          (CheckRateLimit(k) /\ Len(LiveAdmitsSinceReset(k)) >= max_calls)
              => RejectedNext]_vars

(* C11: for a key that filled up (max_calls admissions inside the window,  *)
(* the oldest at time o), a check_rate_limit made at any time >= o + window *)
(* is admitted, whatever rejected checks, get_remaining or cleanup calls    *)
(* came in between.                                                         *)
C11_Readmission ==
    [][\A k \in Users :
          (CheckRateLimit(k) /\ full_at[k] # NoTime /\ now >= full_at[k] + window)
              => lim'.admitted]_vars

C11_Witness ==
    /\ lim.op = "check_rate_limit" /\ lim.admitted
    /\ lim.full_before # NoTime
    /\ now = lim.full_before + window
    /\ CallsOf(lim.key) = <<now>>

(* C12: at every instant, for every key, the admissions made since the     *)
(* key's last reset (all of them when reset is never called) whose time    *)
(* lies in (now - window, now] number at most max_calls.                   *)
C12_SlidingWindowBound ==
    \A k \in Users : Len(LiveAdmitsSinceReset(k)) <= max_calls

C12_Witness ==
    /\ lim.op \in {"get_remaining", "cleanup"}
    /\ \E k \in Users :
          /\ Len(LiveAdmitsSinceReset(k)) = max_calls
          /\ LiveAdmits(k) = LiveAdmitsSinceReset(k)
          /\ LiveAdmits(k)[1].t < now
          /\ LiveAdmits(k)[max_calls].t = now

(* C13: when a key has exactly one free slot and two or more              *)
(* check_rate_limit calls for it are in progress together (every call     *)
(* made or finished at the current clock value was made for that key      *)
(* while it had one free slot, and has finished), exactly one of them is  *)
(* admitted and the others are rejected with RateLimitExceeded.            *)
Active == {c \in Callers : cpc[c] # "idle"}

RacedFor(k) ==
    /\ Cardinality(Active) >= 2
    /\ \A c \in Active :
          /\ cpc[c] = "done"
          /\ ccall[c].key = k /\ ccall[c].free = 1
          /\ ccall[c].t = now /\ ccall[c].tb = now

C13_AtomicPerKey ==
    \A k \in Users :
        RacedFor(k) =>
            /\ Cardinality({c \in Active : cres[c].admitted}) = 1
            /\ \A c \in Active :
                  ~cres[c].admitted => cres[c].error = "RateLimitExceeded"

C13_Witness ==
    /\ Active = Callers
    /\ RacedFor("u1")
    /\ Len(CallsOf("u1")) = max_calls
    /\ CallsOf("u1")[1] < now

(* C14: get_remaining(k) leaves the limiter's map (its keys and each      *)
(* key's entry list) as it was, also for a key never seen, and returns    *)
(* max(0, max_calls - number of live entries of k).                        *)
LiveEntries(k) == Prune(CallsOf(k), now - window)

C14_GetRemainingNonMutating ==
    [][\A k \in Users :
          GetRemaining(k) =>
              /\ calls' = calls
              /\ lim'.remaining = Max(0, max_calls - Len(LiveEntries(k)))]_vars

(* C15 as stated: two get_remaining(k) calls with no other limiter call   *)
(* between them return the same value.                                     *)
C15_Original ==
    [][\A k \in Users :
          (GetRemaining(k) /\ lim.op = "get_remaining" /\ lim.key = k)
              => lim'.remaining = lim.remaining]_vars

(* C15 amended: get_remaining(k) returns the free slots of k, and the     *)
(* free slots of k stay the same over every step that leaves the clock    *)
(* where it is and is not a check_rate_limit or reset of k; so repeated   *)
(* get_remaining(k) calls at one clock value with no check_rate_limit or  *)
(* reset of k between them return the same value.                          *)
C15_IdempotentPruning ==
    [][\A k \in Users :
          /\ GetRemaining(k) => lim'.remaining = FreeSlots(k)
          /\ (now' = now /\ ~CheckRateLimit(k) /\ ~Reset(k))
                => FreeSlots(k)' = FreeSlots(k)]_vars

C15_Witness ==
    /\ lim.op = "get_remaining"
    /\ lim.remaining = 1 /\ FreeSlots(lim.key) = 1
    /\ CallsOf(lim.key) = <<now - 1>>
    /\ Len(admit_log[lim.key]) = 1
    /\ \E k \in Users \ {lim.key} : k \in DOMAIN calls

(* C16: a user with a contact address that is not verified is rejected    *)
(* for job_complete, job_failed, quota_warning and quota_exceeded, and,   *)
(* the preference lookup answering without an opt-out for the kind, is    *)
(* admitted for welcome and verify with the address returned.              *)
Returned == pc = "done"
Unverified == Returned /\ gate_in.dir = Lookup(TRUE, "Unverified")
Verified == Returned /\ gate_in.dir = Lookup(TRUE, "Verified")
HasRecord == gate_in.pref.ok /\ gate_in.pref.value.exists
FlagOf(kind) == gate_in.pref.value.row[kind]
OptedOut ==
    /\ HasRecord
    /\ gate_in.kind \in DOMAIN gate_in.pref.value.row
    /\ ~FlagOf(gate_in.kind)
AdmittedWithAddress == should_send /\ user_email = Emails[gate_in.user]

C16_VerificationGate ==
    Unverified =>
        /\ gate_in.kind \in {"job_complete", "job_failed", "quota_warning",
                              "quota_exceeded"} => ~should_send /\ user_email = None
        /\ (gate_in.kind \in {"welcome", "verify"} /\ gate_in.pref.ok /\ ~OptedOut)
              => AdmittedWithAddress

C16_Witness ==
    /\ Unverified /\ gate_in.kind = "verify" /\ AdmittedWithAddress
    /\ HasRecord
    /\ DOMAIN gate_in.pref.value.row = {"verify", "job_complete"}
    /\ FlagOf("verify") /\ ~FlagOf("job_complete")

(* C17: a verified user with a contact address and no preference record   *)
(* is admitted for every notification kind, with the address returned.    *)
C17_PreferenceDefault ==
    (Verified /\ gate_in.pref = Lookup(TRUE, NoRow)) => AdmittedWithAddress

C17_Witness ==
    /\ Verified /\ gate_in.pref = Lookup(TRUE, NoRow)
    /\ gate_in.kind = "quota_exceeded" /\ gate_in.user = "u2"
    /\ AdmittedWithAddress

(* C18: for a verified user with a contact address and a preference       *)
(* record, the gate admits kind K iff the record's flag for K is true or  *)
(* absent, whatever the flags of the other kinds are.                      *)
C18_FlagDecides ==
    (Verified /\ HasRecord) => (should_send <=> ~OptedOut)

C18_Witness ==
    /\ Verified /\ HasRecord /\ should_send
    /\ gate_in.kind = "job_failed"
    /\ DOMAIN gate_in.pref.value.row = NotificationType \ {"job_failed"}
    /\ \A k \in NotificationType \ {"job_failed"} : ~FlagOf(k)

(* C19: when the user-directory lookup or the preference lookup of a      *)
(* dispatch raises, the gate returns not-allowed and the dispatch ends    *)
(* without a Transport invocation.                                         *)
C19_NoSendOnLookupFailure ==
    (pc \notin {"idle", "gate"} /\ lookup_raised # None) =>
        /\ ~should_send /\ user_email = None
        /\ pc = "done" /\ result.kind = "return" /\ ~result.success
        /\ transport_log = <<>>

C19_Witness ==
    /\ pc = "done" /\ lookup_raised = "notification_preferences"
    /\ ~should_send /\ transport_log = <<>>
    /\ req.rid = 2 /\ Len(audit) = 1 /\ audit[1].status = "sent"

(* C20: when the gate of a dispatch returns allowed, it returns the       *)
(* user's contact address; when it returns not-allowed, it returns no     *)
(* contact; every Transport invocation has the address as recipient.      *)
C20_AllowedHasContact ==
    /\ pc \notin {"idle", "gate"} =>
          /\ should_send => user_email = Emails[req.user_id]
          /\ ~should_send => user_email = None
    /\ \A i \in DOMAIN transport_log : transport_log[i].to = Emails[req.user_id]

C20_Witness ==
    /\ pc = "done" /\ should_send /\ user_email = Emails[req.user_id]
    /\ Len(transport_log) = 2 /\ transport_log[2].ok
    /\ req.op = "send_quota_warning"

(* C21: a payload of n >= 1 bytes is sent as an inline attachment iff     *)
(* n < attachment_threshold_bytes (without a Blob Store call); a payload  *)
(* of threshold bytes or more goes to the Blob Store, is never attached,  *)
(* and is delivered as a link when the store answers.                      *)
Routed ==
    /\ req.op = "send_job_complete" /\ req.csv >= 1
    /\ should_send /\ pc \notin {"idle", "gate", "route"}

C21_RoutingBoundary ==
    Routed =>
        /\ attachments <=> req.csv < attachment_threshold_bytes
        /\ req.csv < attachment_threshold_bytes =>
              blob_calls = 0 /\ download_section = "attached"
        /\ req.csv >= attachment_threshold_bytes =>
              /\ blob_calls >= 1
              /\ blob_out = "ok" => download_section = "link"
        /\ \A i \in DOMAIN transport_log :
              /\ transport_log[i].attachment <=> req.csv < attachment_threshold_bytes
              /\ transport_log[i].body = download_section

C21_Witness ==
    /\ Routed /\ req.csv = attachment_threshold_bytes
    /\ transport_log # <<>> /\ transport_log[1].body = "link"
    /\ ~transport_log[1].attachment
    /\ Len(audit) = 1 /\ req.rid = 2

(* C22: when the Blob Store upload fails or gives no signed URL, the      *)
(* dispatch goes on to Transport with the error body and no attachment,   *)
(* and if Transport accepts the message the result is success=true with   *)
(* one audit record, 'sent'.                                               *)
Degraded == Routed /\ blob_out \in {"upload_error", "no_signed_url"}

C22_DegradedContinuation ==
    Degraded =>
        /\ ~attachments /\ download_section = "error"
        /\ \A i \in DOMAIN transport_log :
              ~transport_log[i].attachment /\ transport_log[i].body = "error"
        /\ (Finished /\ max_retries >= 1) => transport_log # <<>>
        /\ (Finished /\ Accepted # {}) =>
              /\ result.kind = "return" /\ result.success
              /\ Len(AuditOf(req.rid)) = 1
              /\ AuditOf(req.rid)[1].status = "sent"

(* C23: a dispatch cancelled during a backoff delay makes no further      *)
(* Transport invocation, has no audit record 'sent', and its outcome is   *)
(* recorded: one audit record of the request, 'failed', naming the        *)
(* cancellation.                                                           *)
Cancelled == Finished /\ result.error.src = "cancelled"

C23_CancelledInBackoff ==
    Cancelled =>
        /\ Len(transport_log) = attempt + 1
        /\ \A i \in DOMAIN AuditOf(req.rid) : AuditOf(req.rid)[i].status # "sent"
        /\ Len(AuditOf(req.rid)) = 1
        /\ AuditOf(req.rid)[1].status = "failed"
        /\ AuditOf(req.rid)[1].error.src = "cancelled"

(* C24: while a dispatch waits in its backoff delay it holds no lock, and *)
(* the event loop is not blocked: as long as a further request may come,  *)
(* a step of another dispatch (its submission, gate, routing, Transport   *)
(* call or audit write) can be taken without resuming the waiting one.    *)
C24_BackoffDoesNotBlock ==
    waiting # <<>> =>
        /\ lock = None
        /\ nreq < MaxOverlap => ENABLED RunOther

C24_Witness ==
    /\ pc = "done" /\ result.success
    /\ Len(AuditOf(req.rid)) = 1 /\ AuditOf(req.rid)[1].status = "sent"
    /\ \E i \in DOMAIN waiting :
          /\ waiting[i].frame.req.user_id # req.user_id
          /\ waiting[i].frame.req.rid < req.rid
          /\ now < waiting[i].wake

(* C25: a malformed request ends at once with an invalid-request result,  *)
(* before the gate's lookups, with no Blob Store call, no Transport       *)
(* invocation and no wait.                                                 *)
C25_MalformedRejected ==
    (Finished /\ ~req.valid) =>
        /\ result = ReturnReason("invalid_request")
        /\ ~should_send /\ gate_cause = None /\ lookup_raised = None
        /\ blob_calls = 0
        /\ transport_log = <<>> /\ sleeps = <<>>

(* C26: reset(k) removes the entries of k and nothing else: afterwards    *)
(* get_remaining(k) would give max_calls, the entries of every other key  *)
(* are as before, and a reset of an unknown key changes nothing; and a    *)
(* check_rate_limit(k) is admitted whenever fewer than max_calls          *)
(* admissions of k since its last reset lie in the window, so the         *)
(* max_calls checks that follow a reset are admitted.                      *)
OtherKeysKept(k) ==
    \A j \in Users \ {k} :
        /\ (j \in DOMAIN calls') <=> (j \in DOMAIN calls)
        /\ CallsOf(j)' = CallsOf(j)

C26_ResetClearsKey ==
    [][\A k \in Users :
          /\ Reset(k) =>
                /\ k \notin DOMAIN calls'
                /\ FreeSlots(k)' = max_calls
                /\ OtherKeysKept(k)
                /\ (k \notin DOMAIN calls) => calls' = calls
          /\ (CheckRateLimit(k) /\ Len(LiveAdmitsSinceReset(k)) < max_calls)
                => lim'.admitted]_vars

C26_Witness ==
    /\ lim.op = "check_rate_limit" /\ lim.admitted
    /\ Len(LiveAdmitsSinceReset(lim.key)) = max_calls
    /\ Len(LiveAdmits(lim.key)) > max_calls
    /\ \E j \in Users \ {lim.key} : Len(CallsOf(j)) = max_calls

(* C27: after cleanup() the map holds no expired entry and no key with an *)
(* empty list, and for every key the entries that were live before are    *)
(* the entries it has now.                                                 *)
C27_CleanupResult ==
    [][Cleanup =>
          /\ \A k \in DOMAIN calls' :
                /\ calls'[k] # <<>>
                /\ \A i \in DOMAIN calls'[k] : calls'[k][i] > now - window
          /\ \A k \in Users : CallsOf(k)' = LiveEntries(k)]_vars

C27_Witness ==
    /\ lim.op = "cleanup"
    /\ DOMAIN calls = {"u1"} /\ Len(calls["u1"]) = 1
    /\ full_at["u2"] # NoTime /\ now >= full_at["u2"] + window

(* C28: cleanup() leaves what every later check_rate_limit or             *)
(* get_remaining sees as it was: for every key and every cutoff from      *)
(* now - window on, the entries above the cutoff are the same before and  *)
(* after; and the results of check_rate_limit (admit or reject,           *)
(* retry_after) and get_remaining (count), and the entries they leave,    *)
(* depend on the entries inside the window only.                           *)
SameView(k) ==
    \A c \in (now - window)..now : Prune(CallsOf(k)', c) = Prune(CallsOf(k), c)

C28_CleanupKeepsAdmission ==
    [][\A k \in Users :
          /\ Cleanup => SameView(k)
          /\ CheckRateLimit(k) =>
                /\ lim'.admitted <=> Len(LiveEntries(k)) < max_calls
                /\ lim'.admitted => CallsOf(k)' = Append(LiveEntries(k), now)
                /\ lim'.error = "RateLimitExceeded" =>
                      /\ lim'.retry_after = LiveEntries(k)[1] + window - now
                      /\ CallsOf(k)' = LiveEntries(k)
                /\ OtherKeysKept(k)
          /\ GetRemaining(k) =>
                /\ lim'.remaining = Max(0, max_calls - Len(LiveEntries(k)))
                /\ CallsOf(k)' = LiveEntries(k)
                /\ \A j \in Users \ {k} : CallsOf(j)' = CallsOf(j)]_vars

C28_Witness ==
    /\ lim.op = "cleanup"
    /\ \E k \in Users :
          /\ Len(CallsOf(k)) = max_calls
          /\ CallsOf(k)[1] < CallsOf(k)[max_calls]
          /\ \E j \in Users \ {k} :
                j \notin DOMAIN calls /\ full_at[j] # NoTime

(* C29: for every key the stored list has at most max_calls entries,      *)
(* expired entries not yet pruned included.                                *)
C29_EntryCount ==
    \A k \in DOMAIN calls : Len(calls[k]) <= max_calls

C29_Witness ==
    /\ lim.op = "check_rate_limit" /\ lim.error = "RateLimitExceeded"
    /\ Len(CallsOf(lim.key)) = max_calls
    /\ CallsOf(lim.key)[1] <= now - window

(* C30: a rejected check_rate_limit(k) leaves the live entries of k, the  *)
(* entries of the other keys and the free slots of k as they were, and    *)
(* records no admission.                                                   *)
C30_RejectionRecordsNothing ==
    [][\A k \in Users :
          (CheckRateLimit(k) /\ lim'.error = "RateLimitExceeded") =>
              /\ CallsOf(k)' = LiveEntries(k)
              /\ OtherKeysKept(k)
              /\ FreeSlots(k)' = FreeSlots(k)
              /\ admit_log' = admit_log /\ full_at' = full_at]_vars

C30_Witness ==
    /\ lim.op = "check_rate_limit" /\ lim.error = "RateLimitExceeded"
    /\ lim.retry_after = 1
    /\ CallsOf(lim.key) = LiveEntries(lim.key)
    /\ Len(CallsOf(lim.key)) = max_calls
    /\ full_at[lim.key] = CallsOf(lim.key)[1]

(* C31: every key's list is in non-decreasing time order, so its first    *)
(* element is its oldest entry; a rejected check_rate_limit(k) reports    *)
(* retry_after = (oldest entry of k inside the window) + window - now,    *)
(* and 0 < retry_after <= window.                                          *)
Sorted(list) == \A i, j \in DOMAIN list : i <= j => list[i] <= list[j]

Oldest(list) == CHOOSE t \in {list[i] : i \in DOMAIN list} :
                    \A i \in DOMAIN list : t <= list[i]

C31_RetryAfter ==
    [][\A k \in Users :
          /\ Sorted(CallsOf(k)')
          /\ (CheckRateLimit(k) /\ lim'.error = "RateLimitExceeded") =>
                /\ lim'.retry_after = Oldest(LiveEntries(k)) + window - now
                /\ 0 < lim'.retry_after /\ lim'.retry_after <= window]_vars

C31_Witness ==
    /\ lim.op = "check_rate_limit" /\ lim.error = "RateLimitExceeded"
    /\ CallsOf(lim.key)[1] < CallsOf(lim.key)[max_calls]
    /\ CallsOf(lim.key)[max_calls] = now
    /\ lim.retry_after = CallsOf(lim.key)[1] + window - now
    /\ lim.retry_after < window

(* C32: check_rate_limit, get_remaining and reset of key k leave every    *)
(* other key's entries, and what get_remaining of the other key would     *)
(* give, as they were; and whether check_rate_limit(k) is admitted is     *)
(* decided by the entries of k alone, whatever the other keys hold.        *)
C32_KeysIndependent ==
    [][\A k \in Users :
          /\ (CheckRateLimit(k) \/ GetRemaining(k) \/ Reset(k)) =>
                /\ OtherKeysKept(k)
                /\ \A j \in Users \ {k} : FreeSlots(j)' = FreeSlots(j)
          /\ CheckRateLimit(k) =>
                (lim'.admitted <=> Len(LiveEntries(k)) < max_calls)]_vars

C32_Witness ==
    /\ lim.op = "check_rate_limit" /\ lim.admitted
    /\ CallsOf(lim.key) = <<now>>
    /\ \E j \in Users \ {lim.key} :
          /\ Len(LiveEntries(j)) = max_calls
          /\ full_at[j] # NoTime /\ full_at[j] < now

(* C40: get_remaining(k) returns a positive number iff a                  *)
(* check_rate_limit(k) at the same clock value is admitted (fewer than    *)
(* max_calls entries of k inside the window), it leaves those entries as  *)
(* they were, and an admitted check_rate_limit(k) lowers what             *)
(* get_remaining(k) gives by exactly one.                                  *)
C40_RemainingAgreesWithCheck ==
    [][\A k \in Users :
          /\ GetRemaining(k) =>
                /\ lim'.remaining > 0 <=> Len(LiveEntries(k)) < max_calls
                /\ lim'.remaining = FreeSlots(k)
                /\ LiveEntries(k)' = LiveEntries(k)
          /\ CheckRateLimit(k) =>
                /\ lim'.admitted <=> Len(LiveEntries(k)) < max_calls
                /\ lim'.admitted <=> FreeSlots(k) > 0
                /\ lim'.admitted => FreeSlots(k)' = FreeSlots(k) - 1]_vars

C40_Witness ==
    /\ lim.op = "check_rate_limit" /\ lim.admitted
    /\ FreeSlots(lim.key) = 0
    /\ CallsOf(lim.key)[1] < CallsOf(lim.key)[max_calls]
    /\ \E j \in Users \ {lim.key} : j \in DOMAIN calls /\ calls[j] = <<>>

(* C39: for every configured max_calls >= 0, check_rate_limit returns     *)
(* True or raises RateLimitExceeded and nothing else; with max_calls = 0  *)
(* every call is rejected with RateLimitExceeded.                          *)
C39_OnlyRateLimitExceeded ==
    [][\A k \in Users :
          CheckRateLimit(k) =>
              /\ lim'.admitted \/ lim'.error = "RateLimitExceeded"
              /\ max_calls = 0 => lim'.error = "RateLimitExceeded"]_vars

(* C34: no envelope handed to Transport carries both an attachment and a  *)
(* download link; a payload of threshold bytes or more is never sent as   *)
(* an attachment; a request whose payload is below the threshold, or that *)
(* has none, makes no Blob Store call.                                     *)
C34_OneDeliveryForm ==
    /\ \A i \in DOMAIN transport_log :
          /\ ~(transport_log[i].attachment /\ transport_log[i].body = "link")
          /\ transport_log[i].attachment => transport_log[i].body = "attached"
          /\ req.csv >= attachment_threshold_bytes => ~transport_log[i].attachment
    /\ req.csv >= attachment_threshold_bytes => ~attachments
    /\ req.csv < attachment_threshold_bytes => blob_calls = 0

C34_Witness ==
    /\ Finished /\ result.success
    /\ req.csv = attachment_threshold_bytes + 1
    /\ blob_calls = 2 /\ Len(transport_log) = 2
    /\ transport_log[2].body = "link" /\ ~transport_log[2].attachment

(* C35: a payload of length 0 is routed as an inline attachment: the      *)
(* envelope carries the attachment and the body says so.                   *)
C35_EmptyPayloadInline ==
    (req.op = "send_job_complete" /\ req.csv = 0 /\ should_send
        /\ pc \notin {"idle", "gate", "route"}) =>
        /\ attachments /\ download_section = "attached"
        /\ \A i \in DOMAIN transport_log : transport_log[i].attachment

(* C36: with max_retries = 0 a dispatch that passed the gate makes no     *)
(* Transport invocation and no wait, writes no audit record and returns   *)
(* success=false with error 'Unknown error'.                               *)
C36_ZeroRetries ==
    (Finished /\ should_send /\ max_retries = 0) =>
        /\ transport_log = <<>> /\ sleeps = <<>>
        /\ AuditOf(req.rid) = <<>> /\ audit_errors = 0
        /\ result = ReturnError(UnknownError)

C36_Witness ==
    /\ Finished /\ should_send /\ max_retries = 0
    /\ result = ReturnError(UnknownError)
    /\ req.op = "send_job_complete" /\ blob_calls = 2
    /\ req.rid = 2 /\ audit = <<>>

(* C37: every dispatch that passed the gate reaches its end; it makes at  *)
(* most max_retries Transport invocations and at most max_retries - 1     *)
(* waits, and after every wait another Transport invocation is made.      *)
InProgress == should_send /\ pc \notin {"idle", "done"}

C37_DispatchTerminates ==
    /\ [](/\ Len(transport_log) <= max_retries
          /\ Len(sleeps) <= Max(0, max_retries - 1))
    /\ [][Resume => (pc' = "send" /\ attempt' < max_retries)]_vars
    /\ \A r \in 1..MaxLiveRequests :
          /\ (req.rid = r /\ InProgress) ~> (req.rid = r /\ Finished)
          /\ \A n \in 1..MaxRetriesCfg :
                (req.rid = r /\ pc = "sleep" /\ Len(transport_log) = n)
                   ~> (req.rid = r /\ Len(transport_log) = n + 1)

C37_Witness ==
    /\ Finished /\ should_send /\ max_retries = DefaultMaxRetries
    /\ Len(transport_log) = max_retries /\ Len(sleeps) = max_retries - 1
    /\ transport_log[max_retries].ok /\ result.success

(* C38: the lock is held only by a caller that is inside a method body;   *)
(* a check_rate_limit body that raises leaves the lock free; and every    *)
(* caller waiting for the lock, whatever method it called, gets it and    *)
(* finishes its call.                                                      *)
C38_LockReleased ==
    /\ [](lock # None => cpc[lock] = "locked")
    /\ [][\A c \in LockCallers :
             (RunCheckLock(c) /\ lim'.error # None) => lock' = None]_vars
    /\ \A c \in LockCallers : (cpc[c] = "acquire") ~> (cpc[c] = "done")

C38_Witness ==
    /\ lock = None
    /\ cpc["c1"] = "done" /\ cres["c1"].error = "RateLimitExceeded"
    /\ cpc["c2"] = "done" /\ ccall["c2"].op \in Methods
    /\ ccall["c2"].t = ccall["c1"].t /\ ccall["c1"].tb = now
    /\ lim.op = ccall["c2"].op

(* C33: the gate of every dispatch decides by what the user directory and *)
(* the preference store hold when it runs, whatever an earlier dispatch   *)
(* of the same user decided; a dispatch it rejects ends without a         *)
(* Transport invocation.                                                   *)
StoreDecision ==
    CheckUserPreferences(req.user_id, KindOf(req.op), gate_in.dir, gate_in.pref)

C33_FreshDecision ==
    [][(pc = "gate" /\ pc' # "gate") =>
          /\ should_send' = StoreDecision.should_send
          /\ user_email' = StoreDecision.user_email
          /\ ~StoreDecision.should_send =>
                pc' = "done" /\ transport_log' = <<>>]_vars

C33_Witness ==
    /\ GateRejected /\ gate_cause = "PreferenceOptOut"
    /\ transport_log = <<>>
    /\ req.rid = 2 /\ Len(audit) = 1
    /\ audit[1].status = "sent" /\ audit[1].rid = 1
    /\ audit[1].user_id = req.user_id /\ audit[1].kind = KindOf(req.op)
    /\ gate_in.dir = Lookup(TRUE, "Verified")

C10_Witness ==
    /\ lim.op = "check_rate_limit" /\ lim.error = "RateLimitExceeded"
    /\ lim.retry_after > 0 /\ lim.retry_after < window
    /\ Len(LiveAdmitsSinceReset(lim.key)) = max_calls
    /\ \E a \in {admit_log[lim.key][i] : i \in DOMAIN admit_log[lim.key]} : a.cleared

====
